---- MODULE Spec2Model ----
(***************************************************************************)
(* Model of the ant-clustering simulation core:                            *)
(*   objects/grid.py        GridWorld                                      *)
(*   objects/ant.py         Ant, RuleBasedAnt                              *)
(*   helpers/metrics.py     calculate_clustering_quality                   *)
(*   objects/simulation.py  Simulation                                     *)
(*                                                                         *)
(* Classes and functions are modelled as they are written, applied to the  *)
(* objects the source can hand them: the only grid class is GridWorld      *)
(* (attributes height, width, num_colors, grid, empty_cells), the ant      *)
(* classes are Ant(x, y) and RuleBasedAnt(grid, k1, k2).  A Python         *)
(* exception is an outcome of the call: it is recorded in last.raised and  *)
(* the statements after the raising one are not executed.                  *)
(*                                                                         *)
(* Three clients drive the grid: a caller that builds one RuleBasedAnt on  *)
(* a GridWorld and calls step() on it any number of times, a caller that   *)
(* builds a Simulation and calls run(), and a caller that builds a         *)
(* GridWorld and calls its methods.                                        *)
(*                                                                         *)
(* Reals are exact rationals <<numerator, denominator>>.                   *)
(***************************************************************************)
EXTENDS Integers, Sequences, FiniteSets, TLC

\* ------------------------------------------------------------------ bounds
MaxH == 2
MaxW == 2
MaxK == 2
MaxAnts == 1
MaxT == 3
MaxInterval == 2
MaxRuns == 1
MaxReruns == 2
MaxSets == 1
MaxRows == 3
MaxCols == 3

\* fill_percentage values tried (a percentage, 0..100)
FillChoices == {0, 50}

\* values random.random() returns, in [0, 1)
Draws == {<<0, 1>>, <<1, 2>>, <<9, 10>>}

\* --------------------------------------------------------------- constants
\* self.carrying = None
None == -1

\* K1_PICK_THRESHOLD = 0.3, K2_DROP_THRESHOLD = 0.15
K1 == <<3, 10>>
K2 == <<15, 100>>

\* RuleBasedAnt.DIRECTIONS, as (dx, dy)
DIRECTIONS ==
    << <<-1, -1>>, <<-1, 0>>, <<-1, 1>>, <<0, -1>>,
       <<0, 1>>, <<1, -1>>, <<1, 0>>, <<1, 1>> >>

\* the attributes a GridWorld instance has after __init__
GridWorldAttrs == {"height", "width", "num_colors", "grid", "empty_cells"}

\* the attributes Ant.__init__ sets: self.x, self.y, self.carrying
AntAttrs == {"x", "y", "carrying"}

\* the methods class Ant defines besides __init__
AntMethods == {}

VARIABLES
    client,           \* "RuleBasedAnt", "Simulation", "GridWorld" or "main": the caller
    height, width, num_colors,
    fill_percentage,  \* the fill_percentage argument of GridWorld.__init__
    grid,             \* GridWorld.grid: [row, col] -> 0..num_colors
    grid0,            \* the grid as GridWorld.__init__ left it
    ants,             \* the caller's RuleBasedAnt objects: records [x, y, carrying]
    simState,         \* "constructing", "failed", "Initialized", "Running", "Completed"
    num_steps,        \* Simulation.num_steps
    req_ants,         \* the num_ants argument of Simulation.__init__
    sim_ants,         \* Simulation.ants
    quality_history,  \* Simulation.quality_history
    track_interval,   \* run()'s argument
    step,             \* run()'s loop variable: ticks completed in this call
    runs,             \* calls of run() so far
    lenAtRun,         \* Len(quality_history) when the current run() was called
    step_callback,    \* run()'s argument step_callback is not None
    cb_calls,         \* the invocations of step_callback in the current run()
    view,             \* the list get_quality_history() handed to the caller
    empty_cells,      \* GridWorld.empty_cells
    sets,             \* calls of GridWorld.set() made by the caller so far
    mainLoop,         \* main()'s run loop: where it is, its visualizer, ticks done
    last              \* what the most recent call did

vars ==
    << client, height, width, num_colors, fill_percentage, grid, grid0, ants, simState, num_steps,
       req_ants, sim_ants, quality_history, track_interval, step, runs, lenAtRun,
       step_callback, cb_calls, view, empty_cells, sets, mainLoop, last >>

\* ---------------------------------------------------------------- rationals
Less(a, b) == a[1] * b[2] < b[1] * a[2]

Sq(n) == n * n

\* --------------------------------------------------------------- GridWorld
Cells(h, w) == (0 .. h - 1) \X (0 .. w - 1)

\* the count rounded to the nearest integer, halves upwards
NumObjectsRounded(h, w, fill) ==
    IF h * w * fill >= 0 THEN (h * w * fill + 50) \div 100
    ELSE -((50 - h * w * fill) \div 100)

\* int(total_cells * fill_percentage / 100.0): int() drops the fraction,
\* towards zero
NumObjects(h, w, fill) ==
    IF h * w * fill >= 0 THEN (h * w * fill) \div 100
    ELSE -((-(h * w * fill)) \div 100)

\* the remainder handed to the last colours instead of the first
ColorCountRemainderLast(n, k, color) ==
    (n \div k) + (IF color > k - (n % k) THEN 1 ELSE 0)

\* objects_per_color + (1 if color <= remainder else 0)
ColorCount(n, k, color) == (n \div k) + (IF color <= n % k THEN 1 ELSE 0)

\* The grids __init__ can produce: random.shuffle yields any order of the
\* positions, and the colour-major loop gives the first ColorCount(.., 1)
\* of them colour 1, the next ones colour 2, ...: exactly the grids with
\* these per-colour counts.
InitialGrids(h, w, k, fill) ==
    LET n == NumObjects(h, w, fill) IN
    { g \in [Cells(h, w) -> 0 .. k] :
        \A color \in 1 .. k :
            Cardinality({p \in Cells(h, w) : g[p] = color}) = ColorCount(n, k, color) }

\* all_positions = [(r, c) for r in range(height) for c in range(width)]
AllPositions(h, w) == [i \in 1 .. h * w |-> <<(i - 1) \div w, (i - 1) % w>>]

\* random.shuffle(all_positions), for the outcomes that are a rotation of the
\* list by d places
Shuffled(positions, d) ==
    [i \in 1 .. Len(positions) |-> positions[((i - 1 + d) % Len(positions)) + 1]]

\* how many of the first positions the colours 1 .. color take together
RECURSIVE PlacedUpTo(_, _, _)
PlacedUpTo(n, k, color) ==
    IF color = 0 THEN 0 ELSE PlacedUpTo(n, k, color - 1) + ColorCount(n, k, color)

\* the placement loop: all_positions[idx] gets colour 1 for the first
\* ColorCount(n, k, 1) values of idx, then colour 2, ...; the rest stays 0
PlaceObjects(positions, h, w, k, fill) ==
    LET n == NumObjects(h, w, fill) IN
    [p \in Cells(h, w) |->
        LET idx == CHOOSE i \in 1 .. Len(positions) : positions[i] = p IN
        IF idx > n THEN 0
        ELSE CHOOSE color \in 1 .. k :
                PlacedUpTo(n, k, color - 1) < idx /\ idx <= PlacedUpTo(n, k, color)]

\* no GridWorld object
NoGrid == [p \in {} |-> 0]

\* GridWorld(h, w, k, fill) for any arguments, under the shuffle that rotates
\* by d.  np.zeros refuses a negative dimension (ValueError);
\* num_objects // num_colors divides by zero for k = 0; a negative k makes
\* range(1, k + 1) empty and a negative object count makes every range(count)
\* empty, so nothing is placed; more objects than cells run off the end of
\* all_positions (IndexError).  An exception leaves no object behind.
GridWorldInit(h, w, k, fill, d) ==
    IF h < 0 \/ w < 0 THEN [raised |-> "ValueError", grid |-> NoGrid]
    ELSE IF k = 0 THEN [raised |-> "ZeroDivisionError", grid |-> NoGrid]
    ELSE IF k < 0 \/ NumObjects(h, w, fill) <= 0
         THEN [raised |-> "none", grid |-> [p \in Cells(h, w) |-> 0]]
    ELSE IF NumObjects(h, w, fill) > h * w
         THEN [raised |-> "IndexError", grid |-> NoGrid]
    ELSE [raised |-> "none",
          grid |-> PlaceObjects(Shuffled(AllPositions(h, w), d), h, w, k, fill)]

\* the grids __init__ produces under these shuffles
ShuffledGrids(h, w, k, fill) ==
    { PlaceObjects(Shuffled(AllPositions(h, w), d), h, w, k, fill) : d \in 0 .. h * w - 1 }

\* get() that leaves negative indices to the array, which counts them from
\* the end: only `row < self.height and col < self.width` is tested
GetWrapping(g, h, w, row, col) ==
    IF ~(-h <= row /\ row < h /\ -w <= col /\ col < w) THEN 0
    ELSE g[<<row % h, col % w>>]

IsValid(h, w, row, col) == 0 <= row /\ row < h /\ 0 <= col /\ col < w

Get(g, h, w, row, col) == IF ~IsValid(h, w, row, col) THEN 0 ELSE g[<<row, col>>]

\* set() written with `+=`
SetAccumulates(g, ec, h, w, row, col, value) ==
    IF ~IsValid(h, w, row, col) THEN [grid |-> g, empty_cells |-> ec]
    ELSE [grid |-> [g EXCEPT ![<<row, col>>] = @ + value],
          empty_cells |-> { p \in Cells(h, w) : (IF p = <<row, col>> THEN g[p] + value ELSE g[p]) = 0 }]

\* set() that writes the cell and leaves self.empty_cells alone
SetForgetsEmptyCells(g, ec, h, w, row, col, value) ==
    IF ~IsValid(h, w, row, col) THEN [grid |-> g, empty_cells |-> ec]
    ELSE [grid |-> [g EXCEPT ![<<row, col>>] = value], empty_cells |-> ec]

\* set() that indexes the array as [col, row]
SetTransposed(g, ec, h, w, row, col, value) ==
    IF ~IsValid(h, w, row, col) \/ ~IsValid(h, w, col, row)
    THEN [grid |-> g, empty_cells |-> ec]
    ELSE [grid |-> [g EXCEPT ![<<col, row>>] = value],
          empty_cells |-> { p \in Cells(h, w) : (IF p = <<col, row>> THEN value ELSE g[p]) = 0 }]

\* set(row, col, value): nothing when (row, col) is not valid; else the cell
\* is written and empty_cells gains the cell when a non-zero value becomes 0
\* and loses it when a 0 becomes non-zero
Set(g, ec, h, w, row, col, value) ==
    IF ~IsValid(h, w, row, col) THEN [grid |-> g, empty_cells |-> ec]
    ELSE LET old_value == g[<<row, col>>] IN
         [grid |-> [g EXCEPT ![<<row, col>>] = value],
          empty_cells |->
              IF old_value # 0 /\ value = 0 THEN ec \cup {<<row, col>>}
              ELSE IF old_value = 0 /\ value # 0 THEN ec \ {<<row, col>>}
              ELSE ec]

\* (dr, dc) in the order of the two nested range(-1, 2) loops, (0, 0) skipped
NeighborOffsets ==
    << <<-1, -1>>, <<-1, 0>>, <<-1, 1>>, <<0, -1>>,
       <<0, 1>>, <<1, -1>>, <<1, 0>>, <<1, 1>> >>

RECURSIVE NeighborsFrom(_, _, _, _, _, _)
NeighborsFrom(g, h, w, row, col, i) ==
    IF i > Len(NeighborOffsets) THEN <<>>
    ELSE LET r == row + NeighborOffsets[i][1]
             c == col + NeighborOffsets[i][2]
             rest == NeighborsFrom(g, h, w, row, col, i + 1)
         IN IF IsValid(h, w, r, c) THEN << <<r, c, g[<<r, c>>]>> >> \o rest ELSE rest

\* get_neighbors() on a grid whose edges wrap around: r % height, c % width
GetNeighborsTorus(g, h, w, row, col) ==
    [i \in 1 .. Len(NeighborOffsets) |->
        LET r == (row + NeighborOffsets[i][1]) % h
            c == (col + NeighborOffsets[i][2]) % w
        IN <<r, c, g[<<r, c>>]>>]

GetNeighbors(g, h, w, row, col) == NeighborsFrom(g, h, w, row, col, 1)

\* the similarity taken over the occupied neighbours only
GetLocalSimilarityOccupied(g, h, w, row, col, color) ==
    LET neighbors == GetNeighbors(g, h, w, row, col)
        occupied == {i \in 1 .. Len(neighbors) : neighbors[i][3] # 0}
        matching == Cardinality({i \in occupied : neighbors[i][3] = color})
    IN IF occupied = {} THEN <<0, 1>> ELSE <<matching, Cardinality(occupied)>>

GetLocalSimilarity(g, h, w, row, col, color) ==
    LET neighbors == GetNeighbors(g, h, w, row, col)
        matching == Cardinality({i \in 1 .. Len(neighbors) : neighbors[i][3] = color})
    IN IF Len(neighbors) = 0 THEN <<0, 1>> ELSE <<matching, Len(neighbors)>>


\* ------------------------------------------------- calculate_clustering_quality
\* every neighbour count of a rectangular grid (0, 1, 2, 3, 5, 8) divides this
SimScale == 2 * 2 * 2 * 3 * 5

Occupied(g, h, w) == {p \in Cells(h, w) : g[p] # 0}

\* one entry of `similarities`, scaled by SimScale
ScaledSimilarity(g, h, w, p) ==
    LET s == GetLocalSimilarity(g, h, w, p[1], p[2], Get(g, h, w, p[1], p[2]))
    IN s[1] * (SimScale \div s[2])

RECURSIVE SumSimilarities(_, _, _, _)
SumSimilarities(S, g, h, w) ==
    IF S = {} THEN 0
    ELSE LET p == CHOOSE q \in S : TRUE
         IN ScaledSimilarity(g, h, w, p) + SumSimilarities(S \ {p}, g, h, w)

\* the sum of the similarities divided by the number of cells, not of objects
CalculateClusteringQualityOverCells(g, h, w) ==
    LET occ == Occupied(g, h, w)
    IN IF occ = {} THEN <<0, 1>>
       ELSE <<SumSimilarities(occ, g, h, w), SimScale * h * w>>

\* np.mean(similarities), or 0.0 when there is no object
CalculateClusteringQuality(g, h, w) ==
    LET occ == Occupied(g, h, w)
    IN IF occ = {} THEN <<0, 1>>
       ELSE <<SumSimilarities(occ, g, h, w), SimScale * Cardinality(occ)>>

\* ------------------------------------------------------------ RuleBasedAnt
\* an ant that starts with self.carrying = 0
NewRuleBasedAntsCarryingZero(h, w) ==
    { [x |-> x, y |-> y, carrying |-> 0] : x \in 0 .. w - 1, y \in 0 .. h - 1 }

\* RuleBasedAnt(grid, k1, k2): x = randint(0, width - 1), y = randint(0, height - 1)
NewRuleBasedAnts(h, w) ==
    { [x |-> x, y |-> y, carrying |-> None] : x \in 0 .. w - 1, y \in 0 .. h - 1 }

\* the drop formula in the place of the pick formula: (sim / (k1 + sim)) ** 2
PickProbOfFit(k1, sim) ==
    << Sq(k1[2] * sim[1]), Sq(k1[1] * sim[2] + k1[2] * sim[1]) >>

\* (self.k1 / (self.k1 + sim)) ** 2
PickProbOf(k1, sim) ==
    << Sq(k1[1] * sim[2]), Sq(k1[1] * sim[2] + k1[2] * sim[1]) >>

\* (sim / (self.k2 + sim)) ** 2
DropProbOf(k2, sim) ==
    << Sq(k2[2] * sim[1]), Sq(k2[1] * sim[2] + k2[2] * sim[1]) >>

\* the ants of the model are built with the thresholds of config.py
PickProb(sim) == PickProbOf(K1, sim)

DropProb(sim) == DropProbOf(K2, sim)

\* self.grid.cells[i, j] = v: the attribute lookup comes first; the array
\* index is (i, j) = (row, col)
CellsWrite(g, h, w, i, j, v) ==
    IF "cells" \notin GridWorldAttrs
    THEN [raised |-> "AttributeError", grid |-> g, writes |-> 0]
    ELSE IF ~(-h <= i /\ i < h /\ -w <= j /\ j < w)
    THEN [raised |-> "IndexError", grid |-> g, writes |-> 0]
    ELSE [raised |-> "none", grid |-> [g EXCEPT ![<<i % h, j % w>>] = v], writes |-> 1]

\* the arguments step() and the rules pass as (row, col)
ReadCell(a) == <<a.x, a.y>>
SimCell(a) == <<a.x, a.y>>
\* the index of the cells[...] write, as (row, col)
WriteCell(a) == <<a.y, a.x>>

PickupRule(g, h, w, a, cell_value, draw) ==
    IF a.carrying = None /\ cell_value # 0
    THEN LET sim == GetLocalSimilarity(g, h, w, SimCell(a)[1], SimCell(a)[2], cell_value)
         IN IF Less(draw, PickProb(sim))
            THEN LET wr == CellsWrite(g, h, w, WriteCell(a)[1], WriteCell(a)[2], 0)
                 IN [ant |-> [a EXCEPT !.carrying = cell_value], grid |-> wr.grid,
                     raised |-> wr.raised, pick |-> "taken", writes |-> wr.writes]
            ELSE [ant |-> a, grid |-> g, raised |-> "none", pick |-> "skip", writes |-> 0]
    ELSE [ant |-> a, grid |-> g, raised |-> "none", pick |-> "na", writes |-> 0]

DropRule(g, h, w, a, cell_value, draw) ==
    IF a.carrying # None /\ cell_value = 0
    THEN LET sim == GetLocalSimilarity(g, h, w, SimCell(a)[1], SimCell(a)[2], a.carrying)
         IN IF Less(draw, DropProb(sim))
            THEN LET wr == CellsWrite(g, h, w, WriteCell(a)[1], WriteCell(a)[2], a.carrying)
                 IN [ant |-> IF wr.raised = "none" THEN [a EXCEPT !.carrying = None] ELSE a,
                     grid |-> wr.grid, raised |-> wr.raised, drop |-> "taken",
                     writes |-> wr.writes]
            ELSE [ant |-> a, grid |-> g, raised |-> "none", drop |-> "skip", writes |-> 0]
    ELSE [ant |-> a, grid |-> g, raised |-> "none", drop |-> "na", writes |-> 0]

\* the ant's cell as (row, col) under the convention of _random_movement,
\* which checks x against width and y against height
StandCell(a) == <<a.y, a.x>>

\* valid_moves with the bounds test written `<=`
ValidMovesInclusive(h, w, a) ==
    { i \in 1 .. Len(DIRECTIONS) :
        LET nx == a.x + DIRECTIONS[i][1]
            ny == a.y + DIRECTIONS[i][2]
        IN 0 <= nx /\ nx <= w /\ 0 <= ny /\ ny <= h }

\* valid_moves: the directions whose target is inside the grid
ValidMoves(h, w, a) ==
    { i \in 1 .. Len(DIRECTIONS) :
        LET nx == a.x + DIRECTIONS[i][1]
            ny == a.y + DIRECTIONS[i][2]
        IN 0 <= nx /\ nx < w /\ 0 <= ny /\ ny < h }

\* the ants _random_movement can leave: random.choice picks any valid move
RandomMovement(h, w, a) ==
    IF ValidMoves(h, w, a) = {} THEN {a}
    ELSE { [a EXCEPT !.x = a.x + DIRECTIONS[i][1], !.y = a.y + DIRECTIONS[i][2]] :
             i \in ValidMoves(h, w, a) }

\* step() that goes on after a failing pick and hands _drop_rule a value read
\* again, at the index the rules write, instead of the value read at its start
StepOutcomesReread(g, h, w, a, draw1, draw2) ==
    LET cell_value == Get(g, h, w, ReadCell(a)[1], ReadCell(a)[2])
        p == PickupRule(g, h, w, a, cell_value, draw1)
        again == Get(p.grid, h, w, WriteCell(a)[1], WriteCell(a)[2])
        q == DropRule(p.grid, h, w, p.ant, again, draw2)
    IN IF q.raised # "none" \/ p.raised # "none"
       THEN { [ant |-> q.ant, grid |-> q.grid,
               raised |-> IF q.raised # "none" THEN q.raised ELSE p.raised,
               pick |-> p.pick, drop |-> q.drop, writes |-> p.writes + q.writes] }
       ELSE { [ant |-> m, grid |-> q.grid, raised |-> "none", pick |-> p.pick,
               drop |-> q.drop, writes |-> p.writes + q.writes] :
                 m \in RandomMovement(h, w, q.ant) }

\* step(): the outcomes of one call, for the two values random.random() returns
StepOutcomes(g, h, w, a, draw1, draw2) ==
    LET cell_value == Get(g, h, w, ReadCell(a)[1], ReadCell(a)[2])
        p == PickupRule(g, h, w, a, cell_value, draw1)
        q == DropRule(p.grid, h, w, p.ant, cell_value, draw2)
    IN IF p.raised # "none"
       THEN { [ant |-> p.ant, grid |-> p.grid, raised |-> p.raised, pick |-> p.pick,
               drop |-> "na", writes |-> p.writes] }
       ELSE IF q.raised # "none"
       THEN { [ant |-> q.ant, grid |-> q.grid, raised |-> q.raised, pick |-> p.pick,
               drop |-> q.drop, writes |-> p.writes + q.writes] }
       ELSE { [ant |-> m, grid |-> q.grid, raised |-> "none", pick |-> p.pick,
               drop |-> q.drop, writes |-> p.writes + q.writes] :
                 m \in RandomMovement(h, w, q.ant) }

\* -------------------------------------------------------------- Simulation
\* class Ant: __init__(self, x, y)
AntInitParams == <<"x", "y">>

\* Ant(*args)
NewAnt(args) ==
    IF Len(args) # Len(AntInitParams)
    THEN [raised |-> "TypeError", ants |-> <<>>]
    ELSE [raised |-> "none",
          ants |-> << [x |-> args[1], y |-> args[2], carrying |-> None] >>]

\* the loop `for _ in range(num_ants): ant = Ant(self.grid); self.ants.append(ant)`
RECURSIVE CreateAnts(_)
CreateAnts(n) ==
    IF n = 0 THEN [raised |-> "none", ants |-> <<>>]
    ELSE LET one == NewAnt(<<"grid">>)
             rest == CreateAnts(n - 1)
         IN IF one.raised # "none" THEN one
            ELSE IF rest.raised # "none" THEN rest
            ELSE [raised |-> "none", ants |-> one.ants \o rest.ants]

\* the tracking test written on `step` instead of `step + 1`
TrackNowOffByOne(s, ti, T) == s % ti = 0 \/ s = T - 1

\* (step + 1) % track_interval == 0 or step == self.num_steps - 1
TrackNow(s, ti, T) == (s + 1) % ti = 0 \/ s = T - 1

\* the callback called with the loop variable itself: step_callback(step, ...)
CallbackArgsZeroBased(s, g, q, sa) == [tick |-> s, grid |-> g, quality |-> q, ants |-> sa]

\* step_callback(step + 1, self.grid, quality, self.ants)
CallbackArgs(s, g, q, sa) == [tick |-> s + 1, grid |-> g, quality |-> q, ants |-> sa]

\* get_quality_history() handing out the list itself: return self.quality_history
HistoryAlias(h) == [held |-> TRUE, live |-> TRUE, items |-> h]

\* return self.quality_history.copy(): a new list with the same items
HistoryCopy(h) == [held |-> TRUE, live |-> FALSE, items |-> h]

\* return self.quality_history[-1] if self.quality_history else 0.0
GetFinalQuality(h) == IF h # <<>> THEN h[Len(h)] ELSE <<0, 1>>

\* the caller holds no list of the simulation
NoView == [held |-> FALSE, live |-> FALSE, items |-> <<>>]

\* the loop `for ant in self.ants: ant.step()` on objects of class Ant
AntsLoop(sa) == IF sa # <<>> /\ "step" \notin AntMethods THEN "AttributeError" ELSE "none"

\* the loop filling self.empty_cells: every (row, col) with self.grid[row, col] == 0
EmptyCells(g) == { p \in DOMAIN g : g[p] = 0 }

\* no main() is running
NoMain ==
    [pc |-> "absent", headless_mode |-> FALSE, window |-> FALSE, ticks |-> 0,
     switched |-> "no"]

NoCall ==
    [op |-> "none", raised |-> "none", pick |-> "na", drop |-> "na", writes |-> 0,
     row |-> 0, col |-> 0, value |-> 0, got |-> 0, result |-> <<>>,
     args |-> <<>>]

Called(op, raised) == [NoCall EXCEPT !.op = op, !.raised = raised]

\* ------------------------------------------------------------------- Init
\* GridWorld(height, width, num_colors, fill_percentage) has run; the
\* RuleBasedAnt client has built its ant, the Simulation client is inside
\* Simulation.__init__, after its first statement.
Init ==
    \E h \in 1 .. MaxH, w \in 1 .. MaxW, k \in 1 .. MaxK, f \in FillChoices :
        /\ height = h
        /\ width = w
        /\ num_colors = k
        /\ fill_percentage = f
        /\ grid \in InitialGrids(h, w, k, f)
        /\ grid0 = grid
        /\ client \in {"RuleBasedAnt", "Simulation"}
        /\ ants \in IF client = "RuleBasedAnt"
                    THEN { <<a>> : a \in NewRuleBasedAnts(h, w) }
                    ELSE { <<>> }
        /\ simState = IF client = "Simulation" THEN "constructing" ELSE "absent"
        /\ num_steps = 0
        /\ req_ants = 0
        /\ sim_ants = <<>>
        /\ quality_history = <<>>
        /\ track_interval = 1
        /\ step = 0
        /\ runs = 0
        /\ lenAtRun = 0
        /\ step_callback = FALSE
        /\ cb_calls = <<>>
        /\ view = NoView
        /\ empty_cells = EmptyCells(grid)
        /\ sets = 0
        /\ mainLoop = NoMain
        /\ last = NoCall

simVars ==
    << simState, num_steps, req_ants, sim_ants, quality_history, track_interval,
       step, runs, lenAtRun, step_callback, cb_calls, view >>

\* what the ants and the Simulation never touch: they write no cell through set()
gridApi == << empty_cells, sets >>

gridDims == << height, width, num_colors, fill_percentage, grid0, client >>

\* ants[i].step()
AntStep ==
    /\ client = "RuleBasedAnt"
    /\ \E i \in DOMAIN ants, draw1 \in Draws, draw2 \in Draws :
         \E r \in StepOutcomes(grid, height, width, ants[i], draw1, draw2) :
            /\ ants' = [ants EXCEPT ![i] = r.ant]
            /\ grid' = r.grid
            /\ last' = [NoCall EXCEPT !.op = "step", !.raised = r.raised,
                                       !.pick = r.pick, !.drop = r.drop,
                                       !.writes = r.writes]
    /\ UNCHANGED << gridDims, mainLoop, simVars, gridApi >>

\* Simulation.__init__ after the GridWorld is built
SimulationInit ==
    /\ client = "Simulation"
    /\ simState = "constructing"
    /\ \E n \in 0 .. MaxAnts, T \in 0 .. MaxT :
         LET made == CreateAnts(n) IN
         /\ req_ants' = n
         /\ num_steps' = T
         /\ IF made.raised # "none"
            THEN /\ simState' = "failed"
                 /\ UNCHANGED << sim_ants, quality_history >>
            ELSE /\ simState' = "Initialized"
                 /\ sim_ants' = made.ants
                 /\ quality_history' = << CalculateClusteringQuality(grid, height, width) >>
         /\ last' = Called("Simulation", made.raised)
    /\ UNCHANGED << gridDims, mainLoop, gridApi, grid, ants, track_interval, step, runs, lenAtRun,
                    step_callback, cb_calls, view >>

\* run() that starts by emptying the history: self.quality_history = []
RunStartResets ==
    /\ simState \in {"Initialized", "Completed", "Aborted"}
    /\ runs < MaxRuns
    /\ \E ti \in 1 .. MaxInterval : track_interval' = ti
    /\ \E cb \in BOOLEAN : step_callback' = cb
    /\ cb_calls' = <<>>
    /\ simState' = "Running"
    /\ step' = 0
    /\ runs' = runs + 1
    /\ quality_history' = <<>>
    /\ lenAtRun' = 0
    /\ last' = Called("run", "none")
    /\ UNCHANGED << gridDims, mainLoop, gridApi, grid, ants, num_steps, req_ants, sim_ants, view >>

\* run() that records a sample before its loop: the history gets an entry
\* even when the loop body never runs
RunStartResamples ==
    /\ simState \in {"Initialized", "Completed", "Aborted"}
    /\ runs < MaxRuns
    /\ \E ti \in 1 .. MaxInterval : track_interval' = ti
    /\ \E cb \in BOOLEAN : step_callback' = cb
    /\ cb_calls' = <<>>
    /\ simState' = "Running"
    /\ step' = 0
    /\ runs' = runs + 1
    /\ lenAtRun' = Len(quality_history)
    /\ quality_history' =
          Append(quality_history, CalculateClusteringQuality(grid, height, width))
    /\ last' = Called("run", "none")
    /\ UNCHANGED << gridDims, mainLoop, gridApi, grid, ants, num_steps, req_ants, sim_ants, view >>

\* run(track_interval=ti, step_callback=...) is called
\* run() whose loop goes on from the tick the previous call stopped at:
\* for step in range(self.current_step, self.num_steps)
RunCalledResuming(maxruns) ==
    /\ simState \in {"Initialized", "Completed", "Aborted"}
    /\ runs < maxruns
    /\ \E ti \in 1 .. MaxInterval : track_interval' = ti
    /\ \E cb \in BOOLEAN : step_callback' = cb
    /\ cb_calls' = <<>>
    /\ simState' = "Running"
    /\ step' = IF simState = "Initialized" THEN 0 ELSE step
    /\ runs' = runs + 1
    /\ lenAtRun' = Len(quality_history)
    /\ last' = Called("run", "none")
    /\ UNCHANGED << gridDims, mainLoop, gridApi, grid, ants, num_steps, req_ants, sim_ants,
                    quality_history, view >>

\* run(verbose, track_interval, step_callback) is called, for at most the
\* maxruns-th time: `for step in range(self.num_steps)` starts at 0
RunCalled(maxruns) ==
    /\ simState \in {"Initialized", "Completed", "Aborted"}
    /\ runs < maxruns
    /\ \E ti \in 1 .. MaxInterval : track_interval' = ti
    /\ \E cb \in BOOLEAN : step_callback' = cb
    /\ cb_calls' = <<>>
    /\ simState' = "Running"
    /\ step' = 0
    /\ runs' = runs + 1
    /\ lenAtRun' = Len(quality_history)
    /\ last' = Called("run", "none")
    /\ UNCHANGED << gridDims, mainLoop, gridApi, grid, ants, num_steps, req_ants, sim_ants,
                    quality_history, view >>

RunStart == RunCalled(MaxRuns)

\* one iteration of `for step in range(self.num_steps)`
RunTick ==
    /\ simState = "Running"
    /\ step < num_steps
    /\ IF AntsLoop(sim_ants) # "none"
       THEN /\ simState' = "Aborted"
            /\ last' = Called("tick", AntsLoop(sim_ants))
            /\ UNCHANGED << quality_history, step, cb_calls >>
       ELSE LET quality == CalculateClusteringQuality(grid, height, width) IN
            /\ quality_history' =
                  IF TrackNow(step, track_interval, num_steps)
                  THEN Append(quality_history, quality)
                  ELSE quality_history
            /\ cb_calls' =
                  IF step_callback
                  THEN Append(cb_calls,
                              [args |-> CallbackArgs(step, grid, quality, sim_ants),
                               samples |-> Len(quality_history')])
                  ELSE cb_calls
            /\ step' = step + 1
            /\ last' = Called("tick", "none")
            /\ UNCHANGED simState
    /\ UNCHANGED << gridDims, mainLoop, gridApi, grid, ants, num_steps, req_ants, sim_ants,
                    track_interval, runs, lenAtRun, step_callback, view >>

\* the loop is exhausted and run() returns
RunReturn ==
    /\ simState = "Running"
    /\ step = num_steps
    /\ simState' = "Completed"
    /\ last' = Called("return", "none")
    /\ UNCHANGED << gridDims, mainLoop, gridApi, grid, ants, num_steps, req_ants, sim_ants,
                    quality_history, track_interval, step, runs, lenAtRun,
                    step_callback, cb_calls, view >>

\* hist = sim.get_quality_history()
GetQualityHistoryCall ==
    /\ simState \in {"Initialized", "Completed"}
    /\ view' = HistoryCopy(quality_history)
    /\ last' = Called("get_quality_history", "none")
    /\ UNCHANGED << gridDims, mainLoop, gridApi, grid, ants, simState, num_steps, req_ants, sim_ants,
                    quality_history, track_interval, step, runs, lenAtRun,
                    step_callback, cb_calls >>

\* the caller empties the list it was handed: hist.clear().  A list that is
\* the simulation's own buffer is emptied for the simulation too.
ViewCleared ==
    /\ simState \in {"Initialized", "Completed"}
    /\ view.held
    /\ view.items # <<>>
    /\ view' = [view EXCEPT !.items = <<>>]
    /\ quality_history' = IF view.live THEN <<>> ELSE quality_history
    /\ last' = Called("clear", "none")
    /\ UNCHANGED << gridDims, mainLoop, gridApi, grid, ants, simState, num_steps, req_ants, sim_ants,
                    track_interval, step, runs, lenAtRun, step_callback, cb_calls >>

\* q = sim.get_final_quality()
GetFinalQualityCall ==
    /\ simState \in {"Initialized", "Completed"}
    /\ last' = [Called("get_final_quality", "none")
                   EXCEPT !.result = GetFinalQuality(quality_history)]
    /\ UNCHANGED << gridDims, mainLoop, gridApi, grid, ants, simVars >>

Next == AntStep \/ SimulationInit \/ RunStart \/ RunTick \/ RunReturn

Spec == Init /\ [][Next]_vars

\* ------------------------------------------- a GridWorld, an ant, a caller
\* (row, col) arguments outside the grid: one beyond each of the four edges,
\* and one beyond two of them
OutsideCells(h, w) == { <<-1, 0>>, <<0, -1>>, <<h, w - 1>>, <<h - 1, w>>, <<-1, -1>> }

\* grid.set(row, col, value) with value in [0, num_colors]; `observed` says
\* whether the arguments are kept in `last`
SetCalled(observed) ==
    /\ sets < MaxSets
    /\ \E p \in Cells(height, width) \cup OutsideCells(height, width),
          value \in 0 .. num_colors :
         LET r == Set(grid, empty_cells, height, width, p[1], p[2], value) IN
         /\ grid' = r.grid
         /\ empty_cells' = r.empty_cells
         /\ last' = IF observed
                    THEN [Called("set", "none")
                            EXCEPT !.row = p[1], !.col = p[2], !.value = value]
                    ELSE Called("set", "none")
    /\ sets' = sets + 1
    /\ UNCHANGED << gridDims, mainLoop, ants, simVars >>

\* The caller builds a GridWorld and one RuleBasedAnt on it, and then calls
\* grid.set() and ant.step() in any order.  The grids are those of a shuffle
\* that leaves all_positions in its order; set() calls make the others.
InitGrid ==
    /\ Init
    /\ client = "RuleBasedAnt"
    /\ \E f \in FillChoices :
          grid = PlaceObjects(Shuffled(AllPositions(height, width), 0),
                              height, width, num_colors, f)

AntGridSet == SetCalled(FALSE)

NextGrid == AntStep \/ AntGridSet

SpecGrid == InitGrid /\ [][NextGrid]_vars

\* ------------------------------------------------- a GridWorld and a caller
\* The caller builds a GridWorld and calls its methods.
GridWorldBuilt(maxh, maxw) ==
    \E h \in 1 .. maxh, w \in 1 .. maxw, k \in 1 .. MaxK, f \in FillChoices :
        /\ height = h
        /\ width = w
        /\ num_colors = k
        /\ fill_percentage = f
        /\ grid \in ShuffledGrids(h, w, k, f)
        /\ grid0 = grid
        /\ client = "GridWorld"
        /\ ants = <<>>
        /\ simState = "absent"
        /\ num_steps = 0
        /\ req_ants = 0
        /\ sim_ants = <<>>
        /\ quality_history = <<>>
        /\ track_interval = 1
        /\ step = 0
        /\ runs = 0
        /\ lenAtRun = 0
        /\ step_callback = FALSE
        /\ cb_calls = <<>>
        /\ view = NoView
        /\ empty_cells = EmptyCells(grid)
        /\ sets = 0
        /\ mainLoop = NoMain
        /\ last = NoCall

InitGridWorld == GridWorldBuilt(MaxH, MaxW)

GridSet == SetCalled(TRUE)

\* grid.get(row, col)
GridGet ==
    /\ \E p \in Cells(height, width) \cup OutsideCells(height, width) :
         last' = [Called("get", "none")
                    EXCEPT !.row = p[1], !.col = p[2],
                           !.got = Get(grid, height, width, p[1], p[2])]
    /\ UNCHANGED << gridDims, mainLoop, gridApi, grid, ants, simVars >>

NextGridWorld == GridSet \/ GridGet

SpecGridWorld == InitGridWorld /\ [][NextGridWorld]_vars

\* ------------------------------- a GridWorld, an ant, a caller that scores
\* a scoring function that takes each object it has scored off the grid
QualityCallConsuming ==
    /\ grid' = [p \in DOMAIN grid |-> 0]
    /\ empty_cells' = DOMAIN grid
    /\ last' = [Called("calculate_clustering_quality", "none")
                   EXCEPT !.result = CalculateClusteringQuality(grid, height, width)]
    /\ UNCHANGED << gridDims, mainLoop, sets, ants, simVars >>

\* calculate_clustering_quality(grid)
QualityCall ==
    /\ last' = [Called("calculate_clustering_quality", "none")
                   EXCEPT !.result = CalculateClusteringQuality(grid, height, width)]
    /\ UNCHANGED << gridDims, mainLoop, gridApi, grid, ants, simVars >>

\* The caller of SpecGrid also scores the grid whenever it likes.
NextMetric == AntStep \/ AntGridSet \/ QualityCall

SpecMetric == InitGrid /\ [][NextMetric]_vars

\* ---------------------------------------- a caller that builds a GridWorld
\* fill_percentage arguments tried, in and out of 0..100
ConstructionFills == {-50, 0, 20, 50, 100, 150}

\* The caller is about to call GridWorld(height, width, num_colors,
\* fill_percentage) with arguments of its choice, good or bad.
InitConstruction ==
    \E h \in -1 .. MaxRows, w \in -1 .. MaxCols, k \in -1 .. MaxK, f \in ConstructionFills :
        /\ height = h
        /\ width = w
        /\ num_colors = k
        /\ fill_percentage = f
        /\ grid = NoGrid
        /\ grid0 = NoGrid
        /\ client = "GridWorld"
        /\ ants = <<>>
        /\ simState = "absent"
        /\ num_steps = 0
        /\ req_ants = 0
        /\ sim_ants = <<>>
        /\ quality_history = <<>>
        /\ track_interval = 1
        /\ step = 0
        /\ runs = 0
        /\ lenAtRun = 0
        /\ step_callback = FALSE
        /\ cb_calls = <<>>
        /\ view = NoView
        /\ empty_cells = {}
        /\ sets = 0
        /\ mainLoop = NoMain
        /\ last = NoCall

\* GridWorld(height, width, num_colors, fill_percentage)
GridWorldCall ==
    /\ last.op = "none"
    /\ \E d \in 0 .. (IF height * width > 1 THEN height * width - 1 ELSE 0) :
         LET r == GridWorldInit(height, width, num_colors, fill_percentage, d) IN
         /\ grid' = r.grid
         /\ grid0' = r.grid
         /\ empty_cells' = EmptyCells(r.grid)
         /\ last' = Called("GridWorld", r.raised)
    /\ UNCHANGED << height, width, num_colors, fill_percentage, client, ants, simVars, sets,
                    mainLoop >>

NextConstruction == GridWorldCall

SpecConstruction == InitConstruction /\ [][NextConstruction]_vars

\* ------------------------------------- a GridWorld and a caller that reads
\* The caller builds a GridWorld of up to MaxRows x MaxCols cells and asks
\* for neighbourhoods and similarities.
InitQueries == GridWorldBuilt(MaxRows, MaxCols)

\* grid.get_neighbors(row, col)
GetNeighborsCall ==
    /\ \E p \in Cells(height, width) \cup OutsideCells(height, width) :
         last' = [Called("get_neighbors", "none")
                    EXCEPT !.row = p[1], !.col = p[2],
                           !.result = GetNeighbors(grid, height, width, p[1], p[2])]
    /\ UNCHANGED << gridDims, mainLoop, gridApi, grid, ants, simVars >>

\* grid.get_local_similarity(row, col, color)
GetLocalSimilarityCall ==
    /\ \E p \in Cells(height, width) \cup OutsideCells(height, width),
          color \in 0 .. num_colors :
         last' = [Called("get_local_similarity", "none")
                    EXCEPT !.row = p[1], !.col = p[2], !.value = color,
                           !.result = GetLocalSimilarity(grid, height, width,
                                                         p[1], p[2], color)]
    /\ UNCHANGED << gridDims, mainLoop, gridApi, grid, ants, simVars >>

NextQueries == GetNeighborsCall \/ GetLocalSimilarityCall

SpecQueries == InitQueries /\ [][NextQueries]_vars

\* ---------------------------------------------- a Simulation and its caller
\* The caller builds a Simulation, runs it and reads its results.
InitSimulation ==
    /\ Init
    /\ client = "Simulation"
    /\ \E f \in FillChoices : grid \in ShuffledGrids(height, width, num_colors, f)

NextSimulation ==
    \/ SimulationInit
    \/ RunStart
    \/ RunTick
    \/ RunReturn
    \/ GetQualityHistoryCall
    \/ ViewCleared
    \/ GetFinalQualityCall

SpecSimulation == InitSimulation /\ [][NextSimulation]_vars

\* ------------------------------------------------- LiveVisualizer.update
\* update(step, grid, quality, ants) sorts the ants into two lists by
\* `ant.carrying == 0`, reading ant.row and ant.col for the markers, and
\* counts the ants with `ant.carrying != 0`. An ant is named by its index.

VisualizerUpdate(as) ==
    IF as # <<>> /\ ~({"row", "col"} \subseteq AntAttrs)
    THEN [raised |-> "AttributeError", ants_not_carrying |-> {}, ants_carrying |-> {},
          carrying_count |-> None]
    ELSE [raised |-> "none",
          ants_not_carrying |-> { i \in DOMAIN as : as[i].carrying = 0 },
          ants_carrying |-> { i \in DOMAIN as : as[i].carrying # 0 },
          carrying_count |-> Cardinality({ i \in DOMAIN as : as[i].carrying # 0 })]

\* the caller shows its ants
VisualizerUpdateCall ==
    /\ client = "RuleBasedAnt"
    /\ last' = [Called("update", VisualizerUpdate(ants).raised)
                  EXCEPT !.result = VisualizerUpdate(ants)]
    /\ UNCHANGED << gridDims, mainLoop, gridApi, grid, ants, simVars >>

NextVisualizer == AntStep \/ VisualizerUpdateCall

SpecVisualizer == InitGrid /\ [][NextVisualizer]_vars


\* ------------------------------------------------------ the loop of main()
\* main() builds a Simulation from config.py and runs the ticks itself, in
\* the headless loop or in the visualization loop; the visualizer's
\* headless_mode flag is set by the key D and by main() when the window is
\* gone, both while update_vis is showing a tick. mainLoop.pc is "visual"
\* while main() has a visualizer, "headless" in the loops without one.

\* (step + 1) % 1000 == 0: the interval main() tracks at
MainTrackEvery == 1000

\* values of config.NUM_STEPS: none, below, at and just above the interval
NumStepsChoices == {0, 1, MainTrackEvery, MainTrackEvery + 1}

\* what can happen to the window while update_vis shows a tick
VisEvents == {"none", "key_d", "window_closed"}

InitMain ==
    \E w \in 1 .. MaxW, k \in 1 .. MaxK, f \in FillChoices, T \in NumStepsChoices,
       interface \in BOOLEAN, early \in BOOLEAN :
        /\ height = 1
        /\ width = w
        /\ num_colors = k
        /\ fill_percentage = f
        /\ grid \in ShuffledGrids(1, w, k, f)
        /\ grid0 = grid
        /\ client = "main"
        /\ ants = <<>>
        /\ simState = "Initialized"
        /\ num_steps = T
        /\ req_ants = 0
        /\ sim_ants = <<>>
        /\ quality_history = << CalculateClusteringQuality(grid, 1, w) >>
        /\ track_interval = MainTrackEvery
        /\ step = 0
        /\ runs = 0
        /\ lenAtRun = 1
        /\ step_callback = FALSE
        /\ cb_calls = <<>>
        /\ view = NoView
        /\ empty_cells = EmptyCells(grid)
        /\ sets = 0
        /\ mainLoop = [pc |-> IF interface THEN "visual" ELSE "headless",
                       headless_mode |-> interface /\ early,
                       window |-> interface /\ ~early,
                       ticks |-> 0,
                       switched |-> "no"]
        /\ last = NoCall

\* the body both loops share: the ants loop, the metric, the tracking
MainTick ==
    /\ step < num_steps
    /\ AntsLoop(sim_ants) = "none"
    /\ quality_history' =
          IF TrackNow(step, MainTrackEvery, num_steps)
          THEN Append(quality_history, CalculateClusteringQuality(grid, height, width))
          ELSE quality_history
    /\ step' = step + 1
    /\ last' = [Called("main_tick", "none") EXCEPT !.args = [tick |-> step + 1]]
    /\ UNCHANGED << gridDims, gridApi, grid, ants, simState, num_steps, req_ants,
                    sim_ants, track_interval, runs, lenAtRun, step_callback,
                    cb_calls, view >>

\* one iteration of a loop without visualizer
MainHeadlessTick ==
    /\ mainLoop.pc = "headless"
    /\ MainTick
    /\ mainLoop' = [mainLoop EXCEPT !.ticks = @ + 1]

\* one iteration of the visualization loop: the tick, update_vis, and the
\* check for the window
MainVisualTick ==
    /\ mainLoop.pc = "visual"
    /\ ~mainLoop.headless_mode
    /\ MainTick
    /\ \E ev \in VisEvents :
          mainLoop' = [mainLoop EXCEPT !.ticks = @ + 1,
                                       !.headless_mode = (ev # "none"),
                                       !.window = (ev = "none")]

\* the switch that leaves the tick it was noticed at to the next loop:
\* for remaining_step in range(step + 1, NUM_STEPS)
MainSwitchHeadlessSkipping ==
    /\ mainLoop.pc = "visual"
    /\ mainLoop.headless_mode
    /\ step < num_steps
    /\ mainLoop' = [mainLoop EXCEPT !.pc = "headless", !.headless_mode = FALSE,
                                    !.window = FALSE,
                                    !.switched = IF step = 0 THEN "at_start" ELSE "midway"]
    /\ step' = step + 1
    /\ last' = Called("main_switch", "none")
    /\ UNCHANGED << gridDims, gridApi, grid, ants, simState, num_steps, req_ants,
                    sim_ants, quality_history, track_interval, runs, lenAtRun,
                    step_callback, cb_calls, view >>

\* an iteration that finds headless_mode set: the visualizer is closed and
\* dropped and `for remaining_step in range(step, NUM_STEPS)` takes over
MainSwitchHeadless ==
    /\ mainLoop.pc = "visual"
    /\ mainLoop.headless_mode
    /\ step < num_steps
    /\ mainLoop' = [mainLoop EXCEPT !.pc = "headless", !.headless_mode = FALSE,
                                    !.window = FALSE,
                                    !.switched = IF step = 0 THEN "at_start" ELSE "midway"]
    /\ last' = Called("main_switch", "none")
    /\ UNCHANGED << gridDims, gridApi, grid, ants, simVars >>

\* the loop in charge is exhausted
MainLoopEnds ==
    /\ mainLoop.pc \in {"visual", "headless"}
    /\ step = num_steps
    /\ mainLoop' = [mainLoop EXCEPT !.pc = "done"]
    /\ last' = Called("main_done", "none")
    /\ UNCHANGED << gridDims, gridApi, grid, ants, simVars >>

\* except KeyboardInterrupt: Ctrl+C ends the loop between two iterations
MainInterrupted ==
    /\ mainLoop.pc \in {"visual", "headless"}
    /\ step < num_steps
    /\ mainLoop' = [mainLoop EXCEPT !.pc = "interrupted"]
    /\ last' = Called("main_done", "KeyboardInterrupt")
    /\ UNCHANGED << gridDims, gridApi, grid, ants, simVars >>

NextMain ==
    \/ MainHeadlessTick
    \/ MainVisualTick
    \/ MainSwitchHeadless
    \/ MainLoopEnds
    \/ MainInterrupted

SpecMain == InitMain /\ [][NextMain]_vars


\* --------------------------------------- run_simulation of helpers/run_test.py
\* sim = Simulation(...); sim.run(verbose=False, track_interval=track_interval);
\* then the step numbers of the samples are rebuilt from the history's length.

\* step_history without its last entry being set to num_steps
StepHistoryMultiples(num_points, ti, T) ==
    <<0>> \o [i \in 1 .. num_points - 1 |-> ti * i]

\* step_history = [0] + [track_interval * i for i in range(1, num_points)]
\* if step_history[-1] != num_steps: step_history[-1] = num_steps
StepHistory(num_points, ti, T) ==
    LET listed == <<0>> \o [i \in 1 .. num_points - 1 |-> ti * i]
    IN IF listed[Len(listed)] # T
       THEN [listed EXCEPT ![Len(listed)] = T]
       ELSE listed

\* sim.run(verbose=False, track_interval=track_interval): one call, no callback
RunSimulationRun ==
    /\ RunCalled(1)
    /\ step_callback' = FALSE

\* run_simulation ends: with what the constructor raised, or by returning
\* quality_history, step_history once run() has returned
RunSimulationEnd ==
    /\ last.op # "run_simulation"
    /\ \/ simState = "failed"
       \/ simState = "Completed" /\ runs = 1
    /\ last' = IF simState = "failed"
               THEN Called("run_simulation", last.raised)
               ELSE [Called("run_simulation", "none")
                       EXCEPT !.result =
                          [quality_history |-> quality_history,
                           step_history |-> StepHistory(Len(quality_history),
                                                        track_interval, num_steps)]]
    /\ UNCHANGED << gridDims, mainLoop, gridApi, grid, ants, simVars >>

NextRunTest ==
    \/ SimulationInit
    \/ RunSimulationRun
    \/ RunTick
    \/ RunReturn
    \/ RunSimulationEnd

SpecRunTest == InitSimulation /\ [][NextRunTest]_vars


\* ------------------------------------------------- run() called repeatedly
\* The caller builds a Simulation and calls run() again after it returned.
RunAgain == RunCalled(MaxReruns)

NextRepeatedRuns ==
    \/ SimulationInit
    \/ RunAgain
    \/ RunTick
    \/ RunReturn

SpecRepeatedRuns == InitSimulation /\ [][NextRepeatedRuns]_vars


\* ------------------------------------------ the pick and drop probabilities
\* The two formulas of _pickup_rule and _drop_rule, evaluated for an ant
\* built with thresholds k1, k2 on a similarity get_local_similarity can
\* return: matches / total with total the number of neighbours (1..8).

\* thresholds an ant is built with, in lowest terms: 0.3 and 0.15 of
\* config.py, and two larger ones
Thresholds == { <<3, 10>>, <<3, 20>>, <<1, 1>>, <<5, 2>> }

\* the values of get_local_similarity over n neighbours
Similarities == { <<m, n>> : m \in 0 .. Len(NeighborOffsets), n \in 1 .. Len(NeighborOffsets) }
                   \ { <<m, n>> \in (0 .. Len(NeighborOffsets)) \X (1 .. Len(NeighborOffsets)) : m > n }

InitProbabilities == GridWorldBuilt(1, 1)

ProbabilitiesCall ==
    /\ \E k1 \in Thresholds, k2 \in Thresholds, sim \in Similarities :
          last' = [Called("probabilities", "none")
                      EXCEPT !.args = [k1 |-> k1, k2 |-> k2, sim |-> sim],
                             !.result = [pick |-> PickProbOf(k1, sim),
                                         drop |-> DropProbOf(k2, sim)]]
    /\ UNCHANGED << gridDims, mainLoop, gridApi, grid, ants, simVars >>

NextProbabilities == ProbabilitiesCall

SpecProbabilities == InitProbabilities /\ [][NextProbabilities]_vars


\* ------------------------------------------- a step callback that raises
\* run() has no try/except around step_callback(...): what the callback
\* raises leaves run() at the call, after the tick's ants loop, metric and
\* append.

\* the callback invoked ahead of the tracking block of the same iteration
RunTickCallbackFirst ==
    /\ simState = "Running"
    /\ step < num_steps
    /\ step_callback
    /\ AntsLoop(sim_ants) = "none"
    /\ LET quality == CalculateClusteringQuality(grid, height, width) IN
          cb_calls' = Append(cb_calls,
                             [args |-> CallbackArgs(step, grid, quality, sim_ants),
                              samples |-> Len(quality_history)])
    /\ simState' = "Aborted"
    /\ last' = Called("tick", "CallbackError")
    /\ UNCHANGED << gridDims, mainLoop, gridApi, grid, ants, num_steps, req_ants, sim_ants,
                    quality_history, track_interval, step, runs, lenAtRun,
                    step_callback, view >>

\* one iteration of the loop whose step_callback(...) call raises
RunTickCallbackRaises ==
    /\ simState = "Running"
    /\ step < num_steps
    /\ step_callback
    /\ AntsLoop(sim_ants) = "none"
    /\ LET quality == CalculateClusteringQuality(grid, height, width) IN
          /\ quality_history' =
                IF TrackNow(step, track_interval, num_steps)
                THEN Append(quality_history, quality)
                ELSE quality_history
          /\ cb_calls' = Append(cb_calls,
                                [args |-> CallbackArgs(step, grid, quality, sim_ants),
                                 samples |-> Len(quality_history')])
    /\ simState' = "Aborted"
    /\ last' = Called("tick", "CallbackError")
    /\ UNCHANGED << gridDims, mainLoop, gridApi, grid, ants, num_steps, req_ants, sim_ants,
                    track_interval, step, runs, lenAtRun, step_callback, view >>

NextCallbackFailure ==
    \/ SimulationInit
    \/ RunStart
    \/ RunTick
    \/ RunReturn
    \/ RunTickCallbackRaises

SpecCallbackFailure == InitSimulation /\ [][NextCallbackFailure]_vars



\* ================================================================== claims
IsPrefix(s, t) == Len(s) <= Len(t) /\ \A i \in 1 .. Len(s) : s[i] = t[i]

\* the call that led to the current state was step() of the caller's ant
StepDone == last.op = "step"

\* C1: pick rule effect.  In a step() where the ant is not carrying, stands on
\* a cell holding c # 0 and the draw is below P_pick, the ant carries c
\* afterwards, that cell is empty and no other cell has changed; when the
\* draw is not below P_pick, grid and carrying state are unchanged.
C1_PickEffect ==
    [][ /\ (last'.op = "step" /\ last'.pick = "taken") =>
              LET a == ants[1]
                  cell == ReadCell(a)
              IN /\ ants'[1].carrying = grid[cell]
                 /\ grid' = [grid EXCEPT ![cell] = 0]
        /\ (last'.op = "step" /\ last'.pick = "skip") =>
              /\ grid' = grid
              /\ ants'[1].carrying = ants[1].carrying ]_vars

\* C2: drop rule effect.  In a step() where the ant carries c, stands on an
\* empty cell and the draw is below P_drop, that cell holds c afterwards, the
\* ant carries nothing and no other cell has changed; when the draw is not
\* below P_drop, grid and carrying state are unchanged.
C2_DropEffect ==
    [][ /\ (last'.op = "step" /\ last'.drop = "taken") =>
              LET a == ants[1]
                  cell == ReadCell(a)
              IN /\ ants'[1].carrying = None
                 /\ grid' = [grid EXCEPT ![cell] = a.carrying]
        /\ (last'.op = "step" /\ last'.drop = "skip") =>
              /\ grid' = grid
              /\ ants'[1].carrying = ants[1].carrying ]_vars

\* C3: within one step() the cell whose value is read, the cell at which the
\* local similarity is computed and the cell that pick/drop writes are all
\* the cell the ant stands on at the start of the step, under the (row, col)
\* convention that movement bounds-checks, on square and non-square grids.
C3_DecisionOnStartCell ==
    [][ last'.op = "step" =>
           LET a == ants[1]
           IN /\ ReadCell(a) = StandCell(a)
              /\ (last'.pick # "na" \/ last'.drop # "na") => SimCell(a) = StandCell(a)
              /\ (last'.pick = "taken" \/ last'.drop = "taken") =>
                     WriteCell(a) = StandCell(a) ]_vars

\* C4: in any single step() at most one of pick and drop is taken and at most
\* one grid cell is written.
C4_AtMostOneOfPickDrop ==
    StepDone => /\ ~(last.pick = "taken" /\ last.drop = "taken")
                /\ last.writes <= 1

\* a step() has taken the pick branch
C4_Witness == StepDone /\ last.pick = "taken" /\ last.drop = "na"

C6_StepNeverRaises == StepDone => last.raised = "none"

\* C7: constructing a Simulation with valid parameters succeeds and leaves it
\* Initialized, with exactly num_ants ants, each in bounds, carrying nothing
\* and able to step(), and with exactly one quality sample.
C7_ConstructionSucceeds ==
    last.op = "Simulation" =>
        /\ last.raised = "none"
        /\ simState = "Initialized"
        /\ Len(sim_ants) = req_ants
        /\ \A i \in DOMAIN sim_ants :
              /\ IsValid(height, width, sim_ants[i].y, sim_ants[i].x)
              /\ sim_ants[i].carrying = None
        /\ AntsLoop(sim_ants) = "none"
        /\ Len(quality_history) = 1

SamplesDue(s, ti, T) == Cardinality({t \in 1 .. s : t % ti = 0 \/ t = T})

\* C9: during run() a sample is appended after tick t iff t mod ti = 0 or
\* t = T, at most once per tick; after run() the history has grown by
\* floor(T/ti) + (1 if T > 0 and T mod ti # 0), at most floor(T/ti) + 1.
C9_SamplingCadence ==
    /\ simState \in {"Running", "Completed"} =>
          Len(quality_history) = lenAtRun + SamplesDue(step, track_interval, num_steps)
    /\ simState = "Completed" =>
          /\ Len(quality_history) =
                lenAtRun + (num_steps \div track_interval)
                  + (IF num_steps > 0 /\ num_steps % track_interval # 0 THEN 1 ELSE 0)
          /\ Len(quality_history) <= lenAtRun + (num_steps \div track_interval) + 1
    /\ runs = 1 => lenAtRun = 1

\* run() has returned after 3 ticks tracked every 2: samples after ticks 2 and 3
C9_Witness ==
    /\ simState = "Completed"
    /\ num_steps = 3 /\ track_interval = 2
    /\ Len(quality_history) = lenAtRun + 2

\* C10: quality_history is append-only: its first element is the metric of
\* the freshly constructed grid, and no operation changes, reorders or
\* removes an entry already in it.
C10_HistoryAppendOnly ==
    /\ [](quality_history # <<>> =>
             quality_history[1] = CalculateClusteringQuality(grid0, height, width))
    /\ [][ IsPrefix(quality_history, quality_history') ]_vars

\* two samples have been appended to the initial one
C10_Witness == Len(quality_history) >= 3

\* C14: after construction and after any sequence of set() calls with values in
\* [0, K] and of ant steps, every cell of the grid holds a value in
\* [0, num_colors], and height and width are what they were.
C14_CellsInRange ==
    /\ [](/\ DOMAIN grid = Cells(height, width)
          /\ DOMAIN grid0 = DOMAIN grid
          /\ \A p \in DOMAIN grid : grid[p] \in 0 .. num_colors)
    /\ [][ height' = height /\ width' = width /\ num_colors' = num_colors ]_vars

\* the ant stepped on a grid that set() calls have changed
C14_Witness ==
    /\ last.op = "step"
    /\ sets >= 1
    /\ \E p \in DOMAIN grid : grid[p] = num_colors /\ grid0[p] # num_colors

\* C15: after construction and after any sequence of steps the ant's carrying
\* state is the 'empty' value or a colour in [1, K], never 0 and never above K.
C15_CarryingInRange ==
    \A i \in DOMAIN ants :
        /\ ants[i].carrying = None \/ ants[i].carrying \in 1 .. num_colors
        /\ ants[i].carrying # 0
        /\ ants[i].carrying <= num_colors
        /\ None \notin 0 .. num_colors

\* the ant took the pick branch on a cell that a set() call had filled
C15_Witness ==
    /\ last.op = "step" /\ last.pick = "taken"
    /\ ants[1].carrying \in 1 .. num_colors
    /\ sets >= 1
    /\ \A p \in DOMAIN grid0 : grid0[p] # ants[1].carrying

\* C16: empty_cells is, after construction and after any sequence of set()
\* calls and ant pick/drop operations, exactly the set of in-bounds
\* coordinates whose cell value is 0.
C16_EmptyCellsConsistent ==
    empty_cells = { p \in Cells(height, width) : grid[p] = 0 }

\* a set() call has filled a cell that was empty, and the ant has then taken
\* the pick branch on that cell
C16_Witness ==
    /\ last.op = "step" /\ last.pick = "taken"
    /\ \E p \in DOMAIN grid : grid[p] # 0 /\ grid0[p] = 0 /\ p \notin empty_cells
    /\ \A p \in DOMAIN grid0 : grid0[p] = 0
    /\ empty_cells # {}

\* C17: for (row, col) outside the grid, get(row, col) returns 0 without
\* raising, and set(row, col, v) raises nothing and leaves every cell and the
\* empty-cell set unchanged.
C17_OutOfBoundsHarmless ==
    [][ (last'.op \in {"get", "set"}
           /\ ~(last'.row \in 0 .. height - 1 /\ last'.col \in 0 .. width - 1)) =>
              /\ last'.raised = "none"
              /\ last'.op = "get" => last'.got = 0
              /\ grid' = grid
              /\ empty_cells' = empty_cells ]_vars

\* get(-1, -1) was called on a grid whose last cell holds an object
C17_Witness ==
    /\ last.op = "get"
    /\ last.row = -1 /\ last.col = -1
    /\ grid[<<height - 1, width - 1>>] # 0

\* C18: for in-bounds (r, c) and v in [0, K], after set(r, c, v) a get(r, c)
\* returns v and every other cell keeps the value it had before the set.
C18_SetGetRoundTrip ==
    [][ (last'.op = "set"
           /\ last'.row \in 0 .. height - 1 /\ last'.col \in 0 .. width - 1) =>
              /\ Get(grid', height, width, last'.row, last'.col) = last'.value
              /\ \A p \in Cells(height, width) \ {<<last'.row, last'.col>>} :
                    grid'[p] = grid[p] ]_vars

\* set(r, c, v) has just replaced one object by another on a grid that is
\* not square
C18_Witness ==
    /\ last.op = "set"
    /\ last.row \in 0 .. height - 1 /\ last.col \in 0 .. width - 1
    /\ height # width
    /\ grid[<<last.row, last.col>>] = last.value
    /\ last.value # 0
    /\ grid0[<<last.row, last.col>>] \notin {0, last.value}
    /\ sets = 1

\* the in-bounds cells at Chebyshev distance 1 of (row, col)
Around(h, w, row, col) ==
    { p \in Cells(h, w) :
        /\ p # <<row, col>>
        /\ p[1] - row \in -1 .. 1
        /\ p[2] - col \in -1 .. 1 }

\* C19: get_local_similarity(row, col, color) is (number of in-bounds
\* neighbours whose value equals color) / (number of all in-bounds
\* neighbours, empty ones included), the cell itself not counted; it lies in
\* [0, 1] and is 0.0 when there is no in-bounds neighbour (1x1 grid).
C19_LocalSimilarity ==
    last.op = "get_local_similarity" =>
        LET around == Around(height, width, last.row, last.col)
            same == { p \in around : grid[p] = last.value }
            sim == last.result
        IN /\ sim[2] > 0
           /\ 0 <= sim[1] /\ sim[1] <= sim[2]
           /\ around # {} =>
                 sim[1] * Cardinality(around) = Cardinality(same) * sim[2]
           /\ around = {} => sim[1] = 0
           /\ (height = 1 /\ width = 1 /\ last.row = 0 /\ last.col = 0) => sim[1] = 0

\* the similarity of an interior cell was asked for a colour that some but
\* not all of its eight neighbours hold, some of the others being empty
C19_Witness ==
    /\ last.op = "get_local_similarity"
    /\ last.row = 1 /\ last.col = 1 /\ height = 3 /\ width = 3
    /\ last.value # 0
    /\ last.result[1] \in 1 .. 7
    /\ last.result[2] = 8
    /\ \E p \in Around(height, width, 1, 1) : grid[p] = 0

\* C20: get_neighbors(row, col) returns each in-bounds cell at Chebyshev
\* distance 1 exactly once with its current value, never the cell itself and
\* never a wrapped-around cell: on grids of at least 3x3, 3 entries for a
\* corner, 5 for another edge cell and 8 for an interior cell.
C20_Neighbors ==
    last.op = "get_neighbors" =>
        LET around == Around(height, width, last.row, last.col)
            n == last.result
            onRowEdge == last.row \in {0, height - 1}
            onColEdge == last.col \in {0, width - 1}
        IN /\ Len(n) = Cardinality(around)
           /\ { n[i] : i \in 1 .. Len(n) } = { <<p[1], p[2], grid[p]>> : p \in around }
           /\ \A i \in 1 .. Len(n) : <<n[i][1], n[i][2]>> # <<last.row, last.col>>
           /\ (height >= 3 /\ width >= 3 /\ <<last.row, last.col>> \in Cells(height, width)) =>
                 Len(n) = IF onRowEdge /\ onColEdge THEN 3
                          ELSE IF onRowEdge \/ onColEdge THEN 5
                          ELSE 8

\* the neighbours of the interior cell of a 3x3 grid that holds objects
C20_Witness ==
    /\ last.op = "get_neighbors"
    /\ height = 3 /\ width = 3
    /\ last.row = 1 /\ last.col = 1
    /\ Len(last.result) = 8
    /\ \E i \in 1 .. 8 : last.result[i][3] # 0

\* GridWorld(...) has returned an object
Constructed == last.op = "GridWorld" /\ last.raised = "none"

\* the arguments are a configuration the documentation allows
ValidConfig ==
    /\ height > 0 /\ width > 0
    /\ num_colors > 0
    /\ fill_percentage \in 0 .. 100

\* the cells that hold an object
ObjectCells == { p \in DOMAIN grid : grid[p] # 0 }

\* C21 as stated: construction with fill fraction f places round(H*W*f)
\* objects, i.e. an integer nearest to H*W*f (whichever way halves go), at
\* distinct cells, all other cells being empty.
C21_RoundedCount ==
    (Constructed /\ ValidConfig) =>
        LET n == Cardinality(ObjectCells) IN
        /\ 2 * (100 * n - height * width * fill_percentage) <= 100
        /\ 2 * (height * width * fill_percentage - 100 * n) <= 100

\* C21 amended: construction with fill fraction f places floor(H*W*f)
\* objects (the fraction of H*W*f is dropped) at distinct cells, all other
\* cells being empty.
C21_TruncatedCount ==
    (Constructed /\ ValidConfig) =>
        LET n == Cardinality(ObjectCells) IN
        /\ DOMAIN grid = Cells(height, width)
        /\ 100 * n <= height * width * fill_percentage
        /\ height * width * fill_percentage < 100 * (n + 1)
        /\ \A p \in DOMAIN grid \ ObjectCells : grid[p] = 0
        /\ \A p \in ObjectCells : grid[p] \in 1 .. num_colors

\* a 3x3 grid built with 20 percent: 1.8, one object
C21_Witness ==
    /\ Constructed
    /\ height = 3 /\ width = 3 /\ fill_percentage = 20
    /\ Cardinality(ObjectCells) = 1

\* C22: the n objects placed at construction are split over the K colours so
\* that colour c gets floor(n/K) of them plus one more exactly when
\* c <= n mod K; any two per-colour counts differ by at most 1.
C22_EvenColourSplit ==
    (Constructed /\ ValidConfig) =>
        LET n == Cardinality(ObjectCells)
            has(c) == Cardinality({ p \in DOMAIN grid : grid[p] = c })
        IN /\ \A c \in 1 .. num_colors :
                 has(c) = (n \div num_colors) + (IF c <= n % num_colors THEN 1 ELSE 0)
           /\ \A c1, c2 \in 1 .. num_colors : has(c1) - has(c2) <= 1

\* three objects in two colours: two of colour 1, one of colour 2
C22_Witness ==
    /\ Constructed /\ ValidConfig
    /\ num_colors = 2
    /\ Cardinality(ObjectCells) = 3
    /\ Cardinality({ p \in DOMAIN grid : grid[p] = 1 }) = 2

\* C23: building a grid with a non-positive height or width, a number of
\* colours <= 0 or a fill outside its range ends in an error and creates no
\* grid; such a value never yields a usable grid.
C23_FailFast ==
    (last.op = "GridWorld" /\ ~ValidConfig) =>
        /\ last.raised # "none"
        /\ grid = NoGrid

\* the in-bounds neighbours of p that hold an object
OccupiedAround(p) == { q \in Around(height, width, p[1], p[2]) : grid[q] # 0 }

\* 840 times the fraction of p's neighbours that hold p's colour, among the
\* occupied ones or among all of them
Fraction(p, amongOccupied) ==
    LET among == IF amongOccupied THEN OccupiedAround(p)
                 ELSE Around(height, width, p[1], p[2])
        same == { q \in among : grid[q] = grid[p] }
    IN IF among = {} THEN 0 ELSE (840 * Cardinality(same)) \div Cardinality(among)

RECURSIVE SumFractions(_, _)
SumFractions(S, amongOccupied) ==
    IF S = {} THEN 0
    ELSE LET p == CHOOSE q \in S : TRUE
         IN Fraction(p, amongOccupied) + SumFractions(S \ {p}, amongOccupied)

\* the value returned is the mean of the fractions over the occupied cells,
\* 0 when there is none, and lies in [0, 1]
IsMeanFraction(q, amongOccupied) ==
    /\ q[2] > 0
    /\ 0 <= q[1] /\ q[1] <= q[2]
    /\ IF ObjectCells = {} THEN q[1] = 0
       ELSE q[1] * 840 * Cardinality(ObjectCells) = SumFractions(ObjectCells, amongOccupied) * q[2]

QualityDone == last.op = "calculate_clustering_quality"

CallbackFailed == simState = "Aborted" /\ last.raised = "CallbackError"

\* C27: when the step callback raises during tick t and the exception leaves
\* run(), t - 1 iterations have completed and the t-th has done all its work:
\* the callback was called once per tick 1..t, every ant of the simulation was
\* stepped in each of them, the grid is the one the failing callback was
\* handed, and the history holds the samples of the run's start plus those
\* due at ticks 1..t, each the metric of the grid.
C27_CallbackFailureKeepsState ==
    CallbackFailed =>
        LET t == cb_calls[Len(cb_calls)].args.tick IN
        /\ t = step + 1
        /\ Len(cb_calls) = t
        /\ \A i \in 1 .. t : cb_calls[i].args.tick = i /\ cb_calls[i].args.ants = sim_ants
        /\ cb_calls[t].args.grid = grid
        /\ Len(quality_history) = lenAtRun + SamplesDue(t, track_interval, num_steps)
        /\ cb_calls[t].samples = Len(quality_history)
        /\ \A i \in 1 .. Len(quality_history) :
              quality_history[i] = CalculateClusteringQuality(grid, height, width)

\* the callback raised in the second tick, a tick whose sample was due, on
\* a grid with objects
C27_Witness ==
    /\ CallbackFailed
    /\ step = 1
    /\ track_interval = 2
    /\ Len(quality_history) = lenAtRun + 1
    /\ \E p \in DOMAIN grid : grid[p] # 0

\* a rational <<num, den>> lies in [0, 1]
InUnitInterval(r) == r[2] > 0 /\ 0 <= r[1] /\ r[1] <= r[2]

ProbabilitiesDone == last.op = "probabilities"

\* C29: for positive thresholds and a similarity s = m/n with n in 1..8, both
\* probabilities lie in [0, 1]; at every similarity at least as large as s the
\* pick probability is no larger and the drop probability is no smaller.
C29_ProbabilitiesBoundedMonotone ==
    ProbabilitiesDone =>
        LET k1 == last.args.k1
            k2 == last.args.k2
            s  == last.args.sim
        IN /\ InUnitInterval(last.result.pick)
           /\ InUnitInterval(last.result.drop)
           /\ \A s2 \in Similarities :
                 ~Less(s2, s) =>
                     /\ ~Less(last.result.pick, PickProbOf(k1, s2))
                     /\ ~Less(DropProbOf(k2, s2), last.result.drop)

\* the probabilities were computed with the thresholds of config.py at a
\* similarity strictly between 0 and 1, and both came out strictly inside (0, 1)
C29_Witness ==
    /\ ProbabilitiesDone
    /\ last.args.k1 = <<3, 10>>
    /\ last.args.k2 = <<3, 20>>
    /\ last.args.sim = <<3, 8>>
    /\ 0 < last.result.pick[1] /\ last.result.pick[1] < last.result.pick[2]
    /\ 0 < last.result.drop[1] /\ last.result.drop[1] < last.result.drop[2]

Abs(n) == IF n < 0 THEN -n ELSE n

\* Chebyshev distance between the positions of two ants
Chebyshev(a, b) ==
    IF Abs(a.x - b.x) >= Abs(a.y - b.y) THEN Abs(a.x - b.x) ELSE Abs(a.y - b.y)

\* C28: every step() of an ant that has an in-bounds neighbour leaves that ant
\* on an in-bounds cell at Chebyshev distance exactly 1 from where it stood
\* (the other ants staying where they were).
C28_MovementUnconditionalLocal ==
    [][ last'.op = "step" =>
          \E i \in DOMAIN ants :
             /\ \A j \in DOMAIN ants \ {i} : ants'[j] = ants[j]
             /\ ValidMoves(height, width, ants[i]) # {} =>
                   /\ Chebyshev(ants[i], ants'[i]) = 1
                   /\ IsValid(height, width, ants'[i].y, ants'[i].x) ]_vars

\* C30: for every colour, the cells holding it plus the ants carrying it are
\* as many as the cells that held it right after construction.
C30_ObjectsConserved ==
    client = "RuleBasedAnt" =>
        \A c \in 1 .. num_colors :
            Cardinality({ p \in DOMAIN grid : grid[p] = c })
              + Cardinality({ i \in DOMAIN ants : ants[i].carrying = c })
            = Cardinality({ p \in DOMAIN grid0 : grid0[p] = c })

\* no in-bounds neighbour of the cell ant a stands on holds colour c
NoNeighbourOfColour(a, c) ==
    \A q \in Around(height, width, StandCell(a)[1], StandCell(a)[2]) : grid[q] # c

\* C31: in a step() of an unladen ant standing on a cell that holds a colour
\* none of its in-bounds neighbours holds, the pick is taken and the ant then
\* carries that colour; in a step() of a carrying ant standing on an empty cell
\* none of whose in-bounds neighbours holds the carried colour, the drop is not
\* taken and the ant keeps what it carries; whatever the draws.
C31_DeterministicExtremes ==
    [][ last'.op = "step" =>
          \E i \in DOMAIN ants :
             /\ \A j \in DOMAIN ants \ {i} : ants'[j] = ants[j]
             /\ ( /\ ants[i].carrying = None
                  /\ grid[StandCell(ants[i])] # 0
                  /\ NoNeighbourOfColour(ants[i], grid[StandCell(ants[i])]) )
                => /\ last'.pick = "taken"
                   /\ ants'[i].carrying = grid[StandCell(ants[i])]
             /\ ( /\ ants[i].carrying # None
                  /\ grid[StandCell(ants[i])] = 0
                  /\ NoNeighbourOfColour(ants[i], ants[i].carrying) )
                => /\ last'.drop # "taken"
                   /\ ants'[i].carrying = ants[i].carrying ]_vars

\* C32: every call of run() starts at tick 0 with the history as the earlier
\* calls left it and returns after num_steps ticks, having appended the
\* samples due in num_steps ticks at its own interval; no sample recorded
\* earlier is changed; after n calls that returned the history holds the
\* initial sample and between n and n * num_steps samples after it (none when
\* num_steps = 0), all of them the metric of the grid.
C32_EveryRunIsFull ==
    /\ [](simState = "Completed" =>
            /\ step = num_steps
            /\ Len(quality_history) =
                  lenAtRun + SamplesDue(num_steps, track_interval, num_steps)
            /\ Len(quality_history) >= 1 + (IF num_steps > 0 THEN runs ELSE 0)
            /\ Len(quality_history) <= 1 + runs * num_steps
            /\ quality_history[1] = CalculateClusteringQuality(grid0, height, width)
            /\ \A i \in 1 .. Len(quality_history) :
                  quality_history[i] = CalculateClusteringQuality(grid, height, width))
    /\ [][ /\ IsPrefix(quality_history, quality_history')
           /\ last'.op = "run" =>
                 /\ step' = 0
                 /\ quality_history' = quality_history
                 /\ lenAtRun' = Len(quality_history)
                 /\ simState = "Completed" =>
                       lenAtRun' = lenAtRun
                                     + SamplesDue(num_steps, track_interval, num_steps) ]_vars

\* the second call of run() has returned after 3 ticks tracked every 2, on a
\* history to which the first call had added samples
C32_Witness ==
    /\ simState = "Completed"
    /\ runs = 2
    /\ num_steps = 3 /\ track_interval = 2
    /\ lenAtRun >= 3
    /\ Len(quality_history) = lenAtRun + 2

\* run_simulation has returned its two lists
RunSimulationReturned == last.op = "run_simulation" /\ last.raised = "none"

\* C33: the step_history run_simulation returns is as long as the quality
\* history it returns (the simulation's), starts with 0 for the initial
\* sample, and its entry for each later sample is the tick of run() after
\* which that sample was appended; its last entry is num_steps.
C33_StepHistoryMatchesSamples ==
    RunSimulationReturned =>
        LET sh == last.result.step_history
            qh == last.result.quality_history
        IN /\ qh = quality_history
           /\ Len(sh) = Len(qh)
           /\ sh[1] = 0
           /\ sh[Len(sh)] = num_steps
           /\ \A i \in 2 .. Len(sh) :
                 /\ sh[i] \in 1 .. num_steps
                 /\ SamplesDue(sh[i], track_interval, num_steps) = i - 1
                 /\ SamplesDue(sh[i] - 1, track_interval, num_steps) = i - 2

\* run_simulation returned after 3 ticks tracked every 2: samples after the
\* ticks 2 and 3, the last one not at a multiple of the interval
C33_Witness ==
    /\ RunSimulationReturned
    /\ num_steps = 3 /\ track_interval = 2
    /\ last.result.step_history = <<0, 2, 3>>

\* C34: in main(), with or without a switch to headless mode and wherever
\* it happens, the ticks executed are 1, 2, 3, ... in this order, each once; a
\* sample is appended after tick t exactly when t mod 1000 = 0 or
\* t = NUM_STEPS; and when the loop ends uninterrupted NUM_STEPS ticks have
\* been executed and the history holds the initial sample and the samples due.
C34_NoTickSkippedOrRepeated ==
    /\ [](mainLoop.pc = "done" =>
            /\ mainLoop.ticks = num_steps
            /\ Len(quality_history) =
                  1 + SamplesDue(num_steps, MainTrackEvery, num_steps))
    /\ [][ last'.op = "main_tick" =>
             /\ last'.args.tick = mainLoop.ticks + 1
             /\ mainLoop'.ticks = mainLoop.ticks + 1
             /\ quality_history' =
                   IF last'.args.tick % MainTrackEvery = 0 \/ last'.args.tick = num_steps
                   THEN Append(quality_history,
                               CalculateClusteringQuality(grid, height, width))
                   ELSE quality_history ]_vars

\* a run of 1001 ticks that was switched to headless mode part-way ended
\* with the samples of tick 1000 and tick 1001
C34_Witness ==
    /\ mainLoop.pc = "done"
    /\ mainLoop.switched = "midway"
    /\ num_steps = MainTrackEvery + 1
    /\ Len(quality_history) = 3

\* C35: update(...) completes and the ants it draws as carrying are exactly
\* the ants whose carrying is not None, the ants it draws as not carrying
\* exactly those whose carrying is None, and 'Ants carrying' is the number of
\* the former.
C35_CarryingShownIffCarrying ==
    last.op = "update" =>
        /\ last.raised = "none"
        /\ last.result.ants_carrying = { i \in DOMAIN ants : ants[i].carrying # None }
        /\ last.result.ants_not_carrying = { i \in DOMAIN ants : ants[i].carrying = None }
        /\ last.result.carrying_count
             = Cardinality({ i \in DOMAIN ants : ants[i].carrying # None })

C12_ZeroTicksChangeNothing ==
    /\ []((simState \in {"Running", "Completed"} /\ num_steps = 0) =>
            /\ Len(quality_history) = lenAtRun
            /\ runs = 1 => Len(quality_history) = 1
            /\ quality_history[1] = CalculateClusteringQuality(grid0, height, width)
            /\ grid = grid0
            /\ cb_calls = <<>>)
    /\ [][ (num_steps = 0 /\ last'.op \in {"run", "tick", "return"}) =>
              /\ quality_history' = quality_history
              /\ grid' = grid
              /\ sim_ants' = sim_ants
              /\ ants' = ants
              /\ cb_calls' = <<>> ]_vars

\* run(step_callback=f) has returned on a simulation built with num_steps = 0
\* on a grid that holds objects
C12_Witness ==
    /\ simState = "Completed"
    /\ num_steps = 0
    /\ step_callback
    /\ \E p \in DOMAIN grid : grid[p] # 0

\* C13: get_quality_history() returns a copy: emptying the returned list
\* changes neither the simulation's history nor what get_final_quality()
\* returns afterwards; get_final_quality() returns the last recorded sample,
\* and 0.0 when there is none.
C13_HistoryIsCopied ==
    /\ [](view.held => ~view.live)
    /\ [](last.op = "get_final_quality" =>
            /\ quality_history # <<>>
            /\ last.result = quality_history[Len(quality_history)])
    /\ [](GetFinalQuality(SubSeq(quality_history, 1, 0)) = <<0, 1>>)
    /\ [][ last'.op = "get_quality_history" => view'.items = quality_history ]_vars
    /\ [][ last'.op = "clear" =>
              /\ quality_history' = quality_history
              /\ GetFinalQuality(quality_history') = GetFinalQuality(quality_history) ]_vars

\* the caller emptied the list it got after a run that appended samples, then
\* asked for the final quality
C13_Witness ==
    /\ last.op = "get_final_quality"
    /\ view.held /\ view.items = <<>>
    /\ Len(quality_history) >= 2
    /\ last.result = quality_history[Len(quality_history)]

====
